---- MODULE Spec2Model ----
(***************************************************************************)
(* A model of risp: the recursive-descent S-expression tokenizer           *)
(* (src/src/tokenize.rs) and the tree-walking evaluator with its function  *)
(* registry (src/src/eval.rs).                                             *)
(*                                                                         *)
(* Bytes are one-character strings, buffers are sequences of bytes.        *)
(* tokenize is modelled as a step machine with an explicit call stack, one *)
(* frame per list-mode invocation, so that a loop that never returns is a  *)
(* cycle of the state graph and not a divergence of the checker.  eval is  *)
(* a second step machine over the same kind of stack.                      *)
(***************************************************************************)
EXTENDS Integers, Sequences, FiniteSets, TLC

VARIABLES
    src_tree,   \* tokenizer: the tree a generated text was written from
    x,          \* tokenizer: the buffer handed to the first call of tokenize
    buffer,     \* tokenizer: the buffer of the current top-level call
    pc,         \* tokenizer: "start", "running", "done"
    stack,      \* tokenizer: list-mode frames [trimmed_rest, nodes], top last
    ret,        \* tokenizer: the value a finished call hands to its caller
    results,    \* tokenizer: results of the finished top-level calls
    profile,    \* evaluator: "debug" (overflow checks) or "release" (wrapping)
    ns0,        \* evaluator: the namespace as constructed
    ns,         \* evaluator: functions, a map from key to native callable
    defined,    \* evaluator: every (key, callable) passed to defn, in order
    epc,        \* evaluator: "idle", "running", "done", "aborted"
    root,       \* evaluator: the node handed to the outermost eval
    estack,     \* evaluator: frames [path, list, idx, args], top last
    eret,       \* evaluator: the value a finished eval hands to its caller
    log         \* evaluator: the events of the current outermost eval

tokvars == <<src_tree, x, buffer, pc, stack, ret, results>>
evalvars == <<profile, ns0, ns, defined, epc, root, estack, eret, log>>
vars == <<src_tree, x, buffer, pc, stack, ret, results,
          profile, ns0, ns, defined, epc, root, estack, eret, log>>

----------------------------------------------------------------------------
(* Bounds of the model.                                                    *)

\* longest buffer of the arbitrary-bytes specification
MaxLen == 5
\* most nodes (lists and leaves) of a generated well-formed text
MaxSize == 5
\* most nodes of a tree handed to eval
MaxEvalSize == 4
\* width of the machine integer isize in the model (64 on the real target)
IsizeBits == 5
\* most defn calls of one evaluation session
MaxDefn == 1

----------------------------------------------------------------------------
(* Bytes.                                                                  *)

\* u8::is_ascii_whitespace: space, tab, line feed, form feed, carriage return
is_ascii_whitespace(c) == c \in {" ", "\t", "\n", "\f", "\r"}

DigitChars == <<"0", "1", "2", "3", "4", "5", "6", "7", "8", "9">>

is_ascii_digit(c) == \E i \in 1..10 : DigitChars[i] = c

DigitValue(c) == (CHOOSE i \in 1..10 : DigitChars[i] = c) - 1

SYMBOL_FORBIDDEN_CHARS == <<"(", ")", "\"", "'">>

is_atom_forbidden_char(c) == \E i \in 1..Len(SYMBOL_FORBIDDEN_CHARS) : SYMBOL_FORBIDDEN_CHARS[i] = c

\* the range of isize
IsizeMin == -(2 ^ (IsizeBits - 1))
IsizeMax == 2 ^ (IsizeBits - 1) - 1

\* two's-complement wrap of an integer into isize
WrapIsize(n) == ((n - IsizeMin) % (2 ^ IsizeBits)) + IsizeMin

----------------------------------------------------------------------------
(* Slices.                                                                 *)

\* slice::iter().position(pred): 0-based index of the first byte in S, or -1 for None
PositionIn(s, S) ==
    IF \E i \in 1..Len(s) : s[i] \in S
    THEN (CHOOSE i \in 1..Len(s) : s[i] \in S /\ \A j \in 1..(i - 1) : s[j] \notin S) - 1
    ELSE -1

AsciiWhitespace == {" ", "\t", "\n", "\f", "\r"}

trim_ascii_start(s) ==
    IF \A i \in 1..Len(s) : is_ascii_whitespace(s[i])
    THEN <<>>
    ELSE LET k == CHOOSE i \in 1..Len(s) :
                    /\ ~is_ascii_whitespace(s[i])
                    /\ \A j \in 1..(i - 1) : is_ascii_whitespace(s[j])
         IN SubSeq(s, k, Len(s))

trim_ascii_end(s) ==
    IF \A i \in 1..Len(s) : is_ascii_whitespace(s[i])
    THEN <<>>
    ELSE LET k == CHOOSE i \in 1..Len(s) :
                    /\ ~is_ascii_whitespace(s[i])
                    /\ \A j \in (i + 1)..Len(s) : is_ascii_whitespace(s[j])
         IN SubSeq(s, 1, k)

trim_ascii(s) == trim_ascii_end(trim_ascii_start(s))

----------------------------------------------------------------------------
(* AstNode, AstToken, ParseError.                                          *)

ListNode(elems) == [tag |-> "List", n |-> 0, bytes |-> <<>>, elems |-> elems]
NumNode(n) == [tag |-> "Num", n |-> n, bytes |-> <<>>, elems |-> <<>>]
SymNode(bytes) == [tag |-> "Sym", n |-> 0, bytes |-> bytes, elems |-> <<>>]
StrNode(bytes) == [tag |-> "Str", n |-> 0, bytes |-> bytes, elems |-> <<>>]
NoNode == [tag |-> "None", n |-> 0, bytes |-> <<>>, elems |-> <<>>]

ParseError(tag, arg) == [tag |-> tag, arg |-> arg]
NoError == ParseError("None", <<>>)

Parsed(node) == [kind |-> "Parsed", node |-> node, rest |-> <<>>, err |-> NoError]
ParsedRest(node, rest) == [kind |-> "ParsedRest", node |-> node, rest |-> rest, err |-> NoError]
Err(tag, arg) == [kind |-> "Err", node |-> NoNode, rest |-> <<>>, err |-> ParseError(tag, arg)]
NoRet == [kind |-> "None", node |-> NoNode, rest |-> <<>>, err |-> NoError]
\* the call did not return: a panic unwinds through every caller
Panicked == [kind |-> "Panic", node |-> NoNode, rest |-> <<>>, err |-> NoError]

----------------------------------------------------------------------------
(* Numbers: isize::from_str and the Display of isize.                      *)

RECURSIVE ParseDigits(_, _, _)
\* the digit loop of isize::from_str: checked multiply-and-add (subtract for a
\* negative number); "overflow" and "invalid" are its two errors
ParseDigits(s, acc, positive) ==
    IF s = <<>> THEN [ok |-> TRUE, n |-> acc]
    ELSE IF ~is_ascii_digit(Head(s)) THEN [ok |-> FALSE, n |-> 0]
    ELSE LET next == IF positive THEN acc * 10 + DigitValue(Head(s))
                     ELSE acc * 10 - DigitValue(Head(s))
         IN IF next > IsizeMax \/ next < IsizeMin
            THEN [ok |-> FALSE, n |-> 0]
            ELSE ParseDigits(Tail(s), next, positive)

\* str::parse::<isize>: an optional sign, then at least one digit, in range
ParseIsize(s) ==
    IF s = <<>> THEN [ok |-> FALSE, n |-> 0]
    ELSE IF Head(s) \in {"-", "+"}
         THEN IF Len(s) = 1 THEN [ok |-> FALSE, n |-> 0]
              ELSE ParseDigits(Tail(s), 0, Head(s) = "+")
         ELSE ParseDigits(s, 0, TRUE)

RECURSIVE NatDigits(_)
NatDigits(n) ==
    IF n < 10 THEN <<DigitChars[n + 1]>>
    ELSE NatDigits(n \div 10) \o <<DigitChars[(n % 10) + 1]>>

\* Display for isize: decimal digits, a leading "-" when negative
DisplayIsize(n) == IF n < 0 THEN <<"-">> \o NatDigits(-n) ELSE NatDigits(n)

----------------------------------------------------------------------------
(* impl Display for AstNode.                                               *)

RECURSIVE Display(_)
RECURSIVE DisplayTail(_)
\* every node after the first, each preceded by one space
DisplayTail(nodes) ==
    IF nodes = <<>> THEN <<>>
    ELSE <<" ">> \o Display(Head(nodes)) \o DisplayTail(Tail(nodes))

Display(node) ==
    CASE node.tag = "List" ->
            <<"(">>
            \o (IF node.elems = <<>> THEN <<>>
                ELSE Display(Head(node.elems)) \o DisplayTail(Tail(node.elems)))
            \o <<")">>
      [] node.tag = "Num" -> DisplayIsize(node.n)
      [] node.tag = "Sym" -> node.bytes
      [] node.tag = "Str" -> <<"\"">> \o node.bytes \o <<"\"">>

----------------------------------------------------------------------------
(* Atoms and strings.                                                      *)

\* the byte 0xFF, which no UTF-8 text contains; every other byte of the model
\* is ASCII
InvalidUtf8Byte == "0xFF"

\* core::str::from_utf8 succeeds on buf
from_utf8_Ok(buf) == \A i \in 1..Len(buf) : buf[i] # InvalidUtf8Byte

\* AstNode::try_parse_atom, as a token-shaped result (Parsed(node), Err, or
\* Panicked when from_utf8(..).expect(..) fails)
try_parse_atom(buf) ==
    IF \E i \in 1..Len(buf) : is_atom_forbidden_char(buf[i])
    THEN LET k == CHOOSE i \in 1..Len(buf) :
                    /\ is_atom_forbidden_char(buf[i])
                    /\ \A j \in 1..(i - 1) : ~is_atom_forbidden_char(buf[j])
         IN Err("ForbiddenCharInSymbol", <<buf[k]>>)
    ELSE IF ~(is_ascii_digit(buf[1]) \/ buf[1] = "-")
         THEN Parsed(SymNode(buf))
         ELSE IF ~from_utf8_Ok(buf) THEN Panicked
         ELSE LET number == ParseIsize(buf)
              IN IF number.ok THEN Parsed(NumNode(number.n))
                 ELSE Err("CannotParseNumber", buf)

get_cutting_index_for_symbol(trimmed_symbol_buffer) ==
    LET first_closing_paren_idx == PositionIn(trimmed_symbol_buffer, {")"})
        first_whitespace_idx == PositionIn(trimmed_symbol_buffer, AsciiWhitespace)
    IN CASE first_closing_paren_idx >= 0 /\ first_whitespace_idx >= 0 ->
                IF first_whitespace_idx = first_closing_paren_idx + 1
                THEN first_closing_paren_idx
                ELSE first_whitespace_idx
         [] first_closing_paren_idx < 0 /\ first_whitespace_idx >= 0 -> first_whitespace_idx
         [] first_closing_paren_idx >= 0 /\ first_whitespace_idx < 0 -> first_closing_paren_idx
         [] OTHER -> Len(trimmed_symbol_buffer)

tokenize_atom(buf) ==
    LET trimmed == trim_ascii(buf)
        cutting_index == get_cutting_index_for_symbol(trimmed)
        to_parse == SubSeq(trimmed, 1, cutting_index)
        rest == SubSeq(trimmed, cutting_index + 1, Len(trimmed))
        trimmed_rest == trim_ascii(rest)
        parsed == try_parse_atom(to_parse)
    IN IF parsed.kind \in {"Err", "Panic"} THEN parsed
       ELSE IF trimmed_rest = <<>> THEN Parsed(parsed.node)
       ELSE ParsedRest(parsed.node, rest)

\* a string mode that lets any byte follow the closing quote
tokenize_string_AnyByteAfter(buf) ==
    LET q == PositionIn(buf, {"\""})
    IN IF q < 0 THEN Err("MissingDoubleQuote", <<>>)
       ELSE LET full_string == SubSeq(buf, 1, q)
                rest == SubSeq(buf, q + 2, Len(buf))
                node == StrNode(full_string)
            IN IF rest = <<>> THEN Parsed(node)
               ELSE ParsedRest(node, rest)

\* buf is what follows the opening quote
tokenize_string(buf) ==
    LET q == PositionIn(buf, {"\""})
    IN IF q < 0 THEN Err("MissingDoubleQuote", <<>>)
       ELSE LET full_string == SubSeq(buf, 1, q)
                rest == SubSeq(buf, q + 2, Len(buf))
                node == StrNode(full_string)
            IN IF rest = <<>> THEN Parsed(node)
               ELSE IF is_ascii_whitespace(rest[1]) THEN ParsedRest(node, rest)
               ELSE IF trim_ascii_start(rest)[1] = ")"
                    THEN ParsedRest(node, trim_ascii_start(rest))
                    ELSE Err("StringDidntEnd", <<>>)

----------------------------------------------------------------------------
(* tokenize, as a step machine.                                            *)

Frame(trimmed_rest, nodes) == [trimmed_rest |-> trimmed_rest, nodes |-> nodes]

Top(s) == s[Len(s)]
Pop(s) == SubSeq(s, 1, Len(s) - 1)

\* A call tokenize(buf) made with the frames `st` below it, up to the point
\* where it either returns (atom, string and error cases, and an opening
\* parenthesis with nothing after it) or enters the element loop of list mode.
\* Gives the stack and the returned value after that point.
TokenizeEnter(buf, st) ==
    LET trimmed == trim_ascii(buf)
    IN IF trimmed = <<>> THEN <<st, Err("CannotParseEmpty", <<>>)>>
       ELSE LET first_char == Head(trimmed)
                rest == Tail(trimmed)
            IN IF first_char = ")" THEN <<st, Err("MissingLeftParenthesis", <<>>)>>
               ELSE IF first_char = "\"" THEN <<st, tokenize_string(rest)>>
               ELSE IF first_char # "(" THEN <<st, tokenize_atom(trimmed)>>
               ELSE LET trimmed_rest == trim_ascii(rest)
                    IN IF trimmed_rest = <<>>
                       THEN <<st, Err("MissingRightParenthesis", <<>>)>>
                       ELSE <<Append(st, Frame(trimmed_rest, <<>>)), NoRet>>

\* a list that hands on what follows its ")" without trimming it
LoopHeadStep_NoTrim(f, st) ==
    IF f.trimmed_rest = <<>>
    THEN <<Pop(st), Err("MissingRightParenthesis", <<>>)>>
    ELSE LET first_char == Head(f.trimmed_rest)
             after_first_char == Tail(f.trimmed_rest)
         IN IF first_char = ")"
            THEN IF after_first_char = <<>>
                 THEN <<Pop(st), Parsed(ListNode(f.nodes))>>
                 ELSE <<Pop(st), ParsedRest(ListNode(f.nodes), after_first_char)>>
            ELSE TokenizeEnter(f.trimmed_rest, st)

\* The list-mode loop from its head to the recursive call: what the frame `f`
\* on top of `st` does with its trimmed_rest.
LoopHeadStep(f, st) ==
    IF f.trimmed_rest = <<>>
    THEN <<Pop(st), Err("MissingRightParenthesis", <<>>)>>
    ELSE LET first_char == Head(f.trimmed_rest)
             after_first_char == Tail(f.trimmed_rest)
         IN IF first_char = ")"
            THEN IF after_first_char = <<>>
                 THEN <<Pop(st), Parsed(ListNode(f.nodes))>>
                 ELSE <<Pop(st), ParsedRest(ListNode(f.nodes), trim_ascii(after_first_char))>>
            ELSE TokenizeEnter(f.trimmed_rest, st)

\* The list-mode loop after the recursive call returned `r` to the frame on
\* top of `st`: `?` hands an error on, a panic unwinds the frame; only
\* ParsedRest is matched by the if-let.
LoopBodyStep(r, st) ==
    LET f == Top(st)
    IN CASE r.kind \in {"Err", "Panic"} -> <<Pop(st), r>>
         [] r.kind = "ParsedRest" ->
                <<Append(Pop(st), Frame(trim_ascii(r.rest), Append(f.nodes, r.node))), NoRet>>
         [] OTHER -> <<st, NoRet>>

\* the first call: tokenize(buffer)
TokenizeCall ==
    /\ pc = "start"
    /\ LET after == TokenizeEnter(buffer, <<>>)
       IN /\ stack' = after[1]
          /\ ret' = after[2]
    /\ pc' = "running"
    /\ UNCHANGED <<src_tree, x, buffer, results>>
    /\ UNCHANGED evalvars

\* one pass of the element loop up to its recursive call or its return
LoopHead ==
    /\ pc = "running"
    /\ ret = NoRet
    /\ stack # <<>>
    /\ LET after == LoopHeadStep(Top(stack), stack)
       IN /\ stack' = after[1]
          /\ ret' = after[2]
    /\ UNCHANGED <<src_tree, x, buffer, pc, results>>
    /\ UNCHANGED evalvars

\* the rest of that pass, once the recursive call has returned
LoopBody ==
    /\ pc = "running"
    /\ ret # NoRet
    /\ stack # <<>>
    /\ LET after == LoopBodyStep(ret, stack)
       IN /\ stack' = after[1]
          /\ ret' = after[2]
    /\ UNCHANGED <<src_tree, x, buffer, pc, results>>
    /\ UNCHANGED evalvars

\* the first call returns to its caller
TokenizeReturn ==
    /\ pc = "running"
    /\ ret # NoRet
    /\ stack = <<>>
    /\ pc' = "done"
    /\ results' = Append(results, ret)
    /\ ret' = NoRet
    /\ UNCHANGED <<src_tree, x, buffer, stack>>
    /\ UNCHANGED evalvars

\* the caller renders the node it got and tokenizes the rendering
Reparse ==
    /\ pc = "done"
    /\ Len(results) = 1
    /\ results[1].kind \in {"Parsed", "ParsedRest"}
    /\ buffer' = Display(results[1].node)
    /\ pc' = "start"
    /\ UNCHANGED <<src_tree, x, stack, ret, results>>
    /\ UNCHANGED evalvars

----------------------------------------------------------------------------
(* Inputs of the tokenizer.                                                *)

Alphabet == {"(", ")", " ", "a", "\"", "1", "-", InvalidUtf8Byte}

\* every buffer of at most MaxLen bytes of the alphabet
Buffers == UNION {[1..n -> Alphabet] : n \in 0..MaxLen}

RECURSIVE Size(_)
RECURSIVE SizeAll(_)
SizeAll(nodes) == IF nodes = <<>> THEN 0 ELSE Size(Head(nodes)) + SizeAll(Tail(nodes))
Size(node) == IF node.tag = "List" THEN 1 + SizeAll(node.elems) ELSE 1

RECURSIVE Trees(_, _)
RECURSIVE Forests(_, _)
\* the sequences of trees of at most n nodes in all
Forests(n, leaves) ==
    {<<>>} \cup UNION {{<<t>> \o f : f \in Forests(n - Size(t), leaves)} : t \in Trees(n, leaves)}
\* the trees of at most n nodes over the given leaves
Trees(n, leaves) ==
    IF n <= 0 THEN {}
    ELSE leaves \cup {ListNode(f) : f \in Forests(n - 1, leaves)}

TextLeaves == {SymNode(<<"a">>), NumNode(1), StrNode(<<"s">>)}

\* how a well-formed text is spelled: whitespace after "(" and before ")",
\* the separator between elements, and a leading zero on numbers
Styles ==
    [open : BOOLEAN, close : BOOLEAN, sep : {<<" ">>, <<"\t", " ">>}, zero : BOOLEAN]

RECURSIVE Render(_, _)
RECURSIVE RenderTail(_, _)
RenderTail(nodes, st) ==
    IF nodes = <<>> THEN <<>>
    ELSE st.sep \o Render(Head(nodes), st) \o RenderTail(Tail(nodes), st)

\* the text of a tree in a style
Render(node, st) ==
    CASE node.tag = "List" ->
            <<"(">> \o (IF st.open THEN <<" ">> ELSE <<>>)
            \o (IF node.elems = <<>> THEN <<>>
                ELSE Render(Head(node.elems), st) \o RenderTail(Tail(node.elems), st))
            \o (IF st.close THEN <<" ">> ELSE <<>>) \o <<")">>
      [] node.tag = "Num" ->
            IF st.zero
            THEN (IF node.n < 0 THEN <<"-", "0">> \o NatDigits(-node.n)
                  ELSE <<"0">> \o NatDigits(node.n))
            ELSE DisplayIsize(node.n)
      [] node.tag = "Sym" -> node.bytes
      [] node.tag = "Str" -> <<"\"">> \o node.bytes \o <<"\"">>

\* the trees the well-formed texts are written from
TextTrees == Trees(MaxSize, TextLeaves)

----------------------------------------------------------------------------
(* Specifications of the tokenizer.                                        *)

EvalUnused ==
    /\ profile = "release"
    /\ ns0 = <<>>
    /\ ns = <<>>
    /\ defined = <<>>
    /\ epc = "unused"
    /\ root = NoNode
    /\ estack = <<>>
    /\ eret = NoRet
    /\ log = <<>>

Init ==
    /\ src_tree = NoNode
    /\ x \in Buffers
    /\ buffer = x
    /\ pc = "start"
    /\ stack = <<>>
    /\ ret = NoRet
    /\ results = <<>>
    /\ EvalUnused

Next ==
    \/ TokenizeCall
    \/ LoopHead
    \/ LoopBody
    \/ TokenizeReturn

\* tokenize on every buffer of at most MaxLen bytes
Spec == Init /\ [][Next]_vars

InitWF ==
    /\ src_tree \in TextTrees
    /\ \E st \in Styles : x = Render(src_tree, st)
    /\ buffer = x
    /\ pc = "start"
    /\ stack = <<>>
    /\ ret = NoRet
    /\ results = <<>>
    /\ EvalUnused

NextWF ==
    \/ TokenizeCall
    \/ LoopHead
    \/ LoopBody
    \/ TokenizeReturn
    \/ Reparse

\* tokenize on every well-formed text, then on the rendering of its result
SpecWF == InitWF /\ [][NextWF]_vars

----------------------------------------------------------------------------
(* Value, EvalError and the results of eval.                               *)

NumValue(n) == [tag |-> "Num", n |-> n, bytes |-> <<>>]
StrValue(bytes) == [tag |-> "Str", n |-> 0, bytes |-> bytes]
NoValue == [tag |-> "None", n |-> 0, bytes |-> <<>>]

\* Value::num: the integer of a Num, None for any other value
Value_num(v) == IF v.tag = "Num" THEN [some |-> TRUE, n |-> v.n] ELSE [some |-> FALSE, n |-> 0]

EvalError(tag, arg) == [tag |-> tag, arg |-> arg]
NoEvalError == EvalError("None", <<>>)

EOk(v) == [kind |-> "Ok", val |-> v, err |-> NoEvalError]
EErr(tag, arg) == [kind |-> "Err", val |-> NoValue, err |-> EvalError(tag, arg)]
\* a panic: the process aborts, nothing is returned
EPanic == [kind |-> "Panic", val |-> NoValue, err |-> NoEvalError]
ENone == [kind |-> "None", val |-> NoValue, err |-> NoEvalError]

----------------------------------------------------------------------------
(* Native callables and the GlobalNamespace.                               *)

RECURSIVE SumFold(_, _, _)
\* Iterator::sum over isize: a fold of `+` from 0.  An addition that leaves
\* the range of isize panics in a build with overflow checks ("debug") and
\* wraps in one without ("release").
SumFold(arguments, acc, prof) ==
    IF arguments = <<>> THEN EOk(NumValue(acc))
    ELSE LET next == acc + Value_num(Head(arguments)).n
         IN IF next > IsizeMax \/ next < IsizeMin
            THEN IF prof = "debug" THEN EPanic
                 ELSE SumFold(Tail(arguments), WrapIsize(next), prof)
            ELSE SumFold(Tail(arguments), next, prof)

lisp_plus(arguments, prof) ==
    IF \E i \in 1..Len(arguments) : ~Value_num(arguments[i]).some
    THEN EErr("InvalidArguments", <<"Non-number in sum operation">>)
    ELSE SumFold(arguments, 0, prof)

\* a second native callable, for defn: its first argument, an error when
\* it has none
lisp_head(arguments) ==
    IF arguments = <<>> THEN EErr("InvalidArguments", <<"head of nothing">>)
    ELSE EOk(Head(arguments))

\* the native callables a session registers
LispFns == {"lisp_plus", "lisp_head"}

\* LispFn::call
LispFn_call(fn, arguments, prof) ==
    IF fn = "lisp_plus" THEN lisp_plus(arguments, prof) ELSE lisp_head(arguments)

\* GlobalNamespace::empty: no function
GlobalNamespace_empty == [key \in {} |-> "lisp_plus"]

\* defn as an insert that keeps an entry already there
GlobalNamespace_defn_KeepsFirst(functions, key, function) ==
    [k \in (DOMAIN functions) \cup {key} |->
        IF k \in DOMAIN functions THEN functions[k] ELSE function]

\* GlobalNamespace::defn: HashMap::insert, which overwrites
GlobalNamespace_defn(functions, key, function) ==
    [k \in (DOMAIN functions) \cup {key} |-> IF k = key THEN function ELSE functions[k]]

\* GlobalNamespace::default: empty, then defn(b"+", lisp_plus)
GlobalNamespace_default == GlobalNamespace_defn(GlobalNamespace_empty, <<"+">>, "lisp_plus")

\* a lookup that reports a missing function as bad arguments
GlobalNamespace_eval_MissIsInvalid(functions, key, arguments, prof) ==
    IF key \notin DOMAIN functions
    THEN EErr("InvalidArguments", key)
    ELSE LispFn_call(functions[key], arguments, prof)

\* GlobalNamespace::eval
GlobalNamespace_eval(functions, key, arguments, prof) ==
    IF key \notin DOMAIN functions
    THEN EErr("UnableToEvalFunction", key)
    ELSE LispFn_call(functions[key], arguments, prof)

----------------------------------------------------------------------------
(* eval, as a step machine.                                                *)

\* the function registered under key, "absent" when there is none
Registered(functions, key) == IF key \in DOMAIN functions THEN functions[key] ELSE "absent"

EFrame(path, list, idx, args) == [path |-> path, list |-> list, idx |-> idx, args |-> args]

\* the events of an evaluation, in the order they happen
EnterEv(path) ==
    [ev |-> "enter", path |-> path, key |-> <<>>, fn |-> "", args |-> <<>>, res |-> ENone]
ReturnEv(path, res) ==
    [ev |-> "return", path |-> path, key |-> <<>>, fn |-> "", args |-> <<>>, res |-> res]
InvokeEv(path, key, fn, args, res) ==
    [ev |-> "invoke", path |-> path, key |-> key, fn |-> fn, args |-> args, res |-> res]

\* eval with the errors CannotEvaluateEmptyList and CannotEvaluateNonSymbol
\* of the EvalError enum for a list without a symbol at its head
EvalEnter_HeadErrors(node, path, st, lg) ==
    LET entered == Append(lg, EnterEv(path))
        returns(res) == <<st, res, Append(entered, ReturnEv(path, res))>>
    IN CASE node.tag = "Num" -> returns(EOk(NumValue(node.n)))
         [] node.tag = "Sym" ->
                returns(EErr("InvalidArguments",
                             <<"Cannot eval a plain symbol since vars are not supported yet">>))
         [] node.tag = "Str" -> returns(EOk(StrValue(node.bytes)))
         [] OTHER ->
                IF node.elems = <<>> THEN returns(EErr("CannotEvaluateEmptyList", <<>>))
                ELSE IF Head(node.elems).tag # "Sym"
                     THEN returns(EErr("CannotEvaluateNonSymbol", <<>>))
                     ELSE <<Append(st, EFrame(path, node, 2, <<>>)), ENone, entered>>

\* A call eval(node) at `path` made with the frames `st` below it, up to the
\* point where it returns (a leaf, or a list without a symbol at its head) or
\* is about to evaluate its arguments.  Gives the stack, the returned value
\* and the log after that point.
EvalEnter(node, path, st, lg) ==
    LET entered == Append(lg, EnterEv(path))
        returns(res) == <<st, res, Append(entered, ReturnEv(path, res))>>
    IN CASE node.tag = "Num" -> returns(EOk(NumValue(node.n)))
         [] node.tag = "Sym" ->
                returns(EErr("InvalidArguments",
                             <<"Cannot eval a plain symbol since vars are not supported yet">>))
         [] node.tag = "Str" -> returns(EOk(StrValue(node.bytes)))
         [] OTHER ->
                IF node.elems # <<>> /\ Head(node.elems).tag = "Sym"
                THEN <<Append(st, EFrame(path, node, 2, <<>>)), ENone, entered>>
                ELSE returns(EErr("InvalidArguments",
                                  <<"The evaluated value must exist and be a symbol">>))

\* The frame `f` on top of `st` takes the next element of its list: eval of
\* that element, or, when none is left, the call of the function its head names.
EvalNextStep(f, st, lg, functions, prof) ==
    IF f.idx <= Len(f.list.elems)
    THEN EvalEnter(f.list.elems[f.idx], Append(f.path, f.idx), st, lg)
    ELSE LET symbol_name == Head(f.list.elems).bytes
             res == GlobalNamespace_eval(functions, symbol_name, f.args, prof)
             invoked == Append(lg, InvokeEv(f.path, symbol_name,
                                            Registered(functions, symbol_name), f.args, res))
         IN IF res.kind = "Panic" THEN <<st, res, invoked>>
            ELSE <<Pop(st), res, Append(invoked, ReturnEv(f.path, res))>>

\* a collect that goes on to the next element after an error
EvalCollectStep_GoesOn(r, st, lg) ==
    LET f == Top(st)
    IN IF r.kind = "Err"
       THEN <<Append(Pop(st), EFrame(f.path, f.list, f.idx + 1, f.args)), ENone, lg>>
       ELSE <<Append(Pop(st), EFrame(f.path, f.list, f.idx + 1, Append(f.args, r.val))),
              ENone, lg>>

\* The eval of an element returned `r` to the frame on top of `st`: collect
\* into a Result stops at the first Err, and `?` returns it.
EvalCollectStep(r, st, lg) ==
    LET f == Top(st)
    IN IF r.kind = "Err"
       THEN <<Pop(st), r, Append(lg, ReturnEv(f.path, r))>>
       ELSE <<Append(Pop(st), EFrame(f.path, f.list, f.idx + 1, Append(f.args, r.val))),
              ENone, lg>>

\* defn(key, function) between evaluations
Defn ==
    /\ epc \in {"idle", "done"}
    /\ Len(defined) < MaxDefn
    /\ \E key \in {<<"+">>, <<"f">>}, function \in LispFns :
          /\ ns' = GlobalNamespace_defn(ns, key, function)
          /\ defined' = Append(defined, <<key, function>>)
    /\ epc' = "idle"
    /\ root' = NoNode
    /\ eret' = ENone
    /\ log' = <<>>
    /\ UNCHANGED <<profile, ns0, estack>>
    /\ UNCHANGED tokvars

EvalLeaves ==
    {NumNode(1), NumNode(IsizeMax), StrNode(<<"s">>), SymNode(<<"+">>), SymNode(<<"f">>)}

\* the nodes handed to eval
EvalNodes == Trees(MaxEvalSize, EvalLeaves)

\* the outermost call: eval(node, namespace)
EvalCall ==
    /\ epc = "idle"
    /\ \E node \in EvalNodes :
          /\ root' = node
          /\ LET after == EvalEnter(node, <<>>, <<>>, <<>>)
             IN /\ estack' = after[1]
                /\ eret' = after[2]
                /\ log' = after[3]
    /\ epc' = "running"
    /\ UNCHANGED <<profile, ns0, ns, defined>>
    /\ UNCHANGED tokvars

\* the next element of the list on top, or the call of its function
EvalNext ==
    /\ epc = "running"
    /\ eret = ENone
    /\ estack # <<>>
    /\ LET after == EvalNextStep(Top(estack), estack, log, ns, profile)
       IN /\ estack' = after[1]
          /\ eret' = after[2]
          /\ log' = after[3]
          /\ epc' = IF after[2].kind = "Panic" THEN "aborted" ELSE "running"
    /\ UNCHANGED <<profile, ns0, ns, defined, root>>
    /\ UNCHANGED tokvars

\* an element's value or error comes back to the list on top
EvalCollect ==
    /\ epc = "running"
    /\ eret # ENone
    /\ estack # <<>>
    /\ LET after == EvalCollectStep(eret, estack, log)
       IN /\ estack' = after[1]
          /\ eret' = after[2]
          /\ log' = after[3]
    /\ UNCHANGED <<profile, ns0, ns, defined, epc, root>>
    /\ UNCHANGED tokvars

\* the outermost call returns
EvalReturn ==
    /\ epc = "running"
    /\ eret # ENone
    /\ estack = <<>>
    /\ epc' = "done"
    /\ UNCHANGED <<profile, ns0, ns, defined, root, estack, eret, log>>
    /\ UNCHANGED tokvars

\* the caller is done with the result of the evaluation
Discard ==
    /\ epc = "done"
    /\ epc' = "idle"
    /\ root' = NoNode
    /\ eret' = ENone
    /\ log' = <<>>
    /\ UNCHANGED <<profile, ns0, ns, defined, estack>>
    /\ UNCHANGED tokvars

TokUnused ==
    /\ src_tree = NoNode
    /\ x = <<>>
    /\ buffer = <<>>
    /\ pc = "unused"
    /\ stack = <<>>
    /\ ret = NoRet
    /\ results = <<>>

InitEval ==
    /\ profile \in {"debug", "release"}
    /\ ns0 \in {GlobalNamespace_empty, GlobalNamespace_default}
    /\ ns = ns0
    /\ defined = <<>>
    /\ epc = "idle"
    /\ root = NoNode
    /\ estack = <<>>
    /\ eret = ENone
    /\ log = <<>>
    /\ TokUnused

NextEval ==
    \/ Defn
    \/ EvalCall
    \/ EvalNext
    \/ EvalCollect
    \/ EvalReturn
    \/ Discard

\* an evaluation session: a namespace, then defn and eval in any order
SpecEval == InitEval /\ [][NextEval]_vars

----------------------------------------------------------------------------
(* Claims about the tokenizer.                                             *)

\* C1: whenever the recursive tokenize call for the next list element
\* returns Parsed (the buffer ended inside the list), the enclosing list
\* parse returns the error MissingRightParenthesis.
C1_ParsedInsideListFails ==
    [][(pc = "running" /\ stack # <<>> /\ ret.kind = "Parsed")
        => (stack' = Pop(stack) /\ ret' = Err("MissingRightParenthesis", <<>>))]_vars

\* C2: every pass of the element loop of list mode either returns (its frame
\* is gone) or strictly shortens the remaining buffer, so tokenize terminates.
C2_LoopPassReturnsOrShortens ==
    [][(pc = "running" /\ stack # <<>> /\ ret # NoRet /\ Len(stack') = Len(stack))
        => Len(Top(stack').trimmed_rest) < Len(Top(stack).trimmed_rest)]_vars

\* C3: for a well-formed text x, tokenizing the rendering of tokenize(x)
\* succeeds, and the node it gives renders to the same text.
C3_IdempotentCanonicalization ==
    (pc = "done" /\ Len(results) = 2)
        => /\ results[2].kind \in {"Parsed", "ParsedRest"}
           /\ Display(results[2].node) = Display(results[1].node)

\* C4: a well-formed parenthesized list text tokenizes to Parsed(List) with
\* the elements in source order and the nesting of the text.
C4_WellFormedListParses ==
    (pc = "done" /\ Len(results) = 1 /\ src_tree.tag = "List")
        => results[1] = Parsed(src_tree)

----------------------------------------------------------------------------
(* Claims about the evaluator.                                             *)

IsPrefix(p, q) == Len(p) <= Len(q) /\ SubSeq(q, 1, Len(p)) = p

\* p comes before q when a tree is walked depth-first, left to right
PreorderBefore(p, q) ==
    /\ p # q
    /\ \/ IsPrefix(p, q)
       \/ \E k \in 1..Len(p) :
             /\ k <= Len(q)
             /\ p[k] < q[k]
             /\ \A j \in 1..(k - 1) : p[j] = q[j]

RECURSIVE NodeAt(_, _)
NodeAt(node, path) == IF path = <<>> THEN node ELSE NodeAt(node.elems[Head(path)], Tail(path))

Events == 1..Len(log)

\* the eval at path p has returned res
Returned(p, res) == \E k \in Events : log[k] = ReturnEv(p, res)

\* the eval at path p returned a value before event k
ReturnedOkBefore(p, k) ==
    \E j \in 1..(k - 1) : log[j].ev = "return" /\ log[j].path = p /\ log[j].res.kind = "Ok"

HeadIsSym(node) == node.tag = "List" /\ node.elems # <<>> /\ Head(node.elems).tag = "Sym"

\* the values the arguments of the list at p returned, in the order of the list
ArgVals(p) ==
    [a \in 1..(Len(NodeAt(root, p).elems) - 1) |->
        log[CHOOSE k \in Events :
                log[k].ev = "return" /\ log[k].path = Append(p, a + 1)].res.val]

RECURSIVE MathSum(_)
\* the sum of the integers of a sequence of Num values
MathSum(arguments) ==
    IF arguments = <<>> THEN 0 ELSE Head(arguments).n + MathSum(Tail(arguments))

\* C5: the arguments of a list are evaluated left to right and depth-first,
\* argument i+1 only after argument i gave a value, all of them before the
\* function is called; at the first failing argument nothing more is
\* evaluated, the function is not called and that argument's error is the
\* error of the list.
C5_ArgumentsLeftToRight ==
    /\ \A i, j \in Events :
          (i < j /\ log[i].ev = "enter" /\ log[j].ev = "enter")
              => PreorderBefore(log[i].path, log[j].path)
    /\ \A k \in Events :
          (log[k].ev = "enter" /\ log[k].path # <<>> /\ log[k].path[Len(log[k].path)] > 2)
              => ReturnedOkBefore([log[k].path EXCEPT ![Len(log[k].path)] = @ - 1], k)
    /\ \A k \in Events :
          log[k].ev = "invoke"
              => \A a \in 2..Len(NodeAt(root, log[k].path).elems) :
                    ReturnedOkBefore(Append(log[k].path, a), k)
    /\ \A k \in Events :
          (log[k].ev = "return" /\ log[k].res.kind = "Err")
              => \A j \in Events :
                    j > k => /\ log[j].ev = "return"
                             /\ log[j].res = log[k].res
                             /\ IsPrefix(log[j].path, log[k].path)
    /\ \A k \in Events :
          (epc = "done" /\ log[k].ev = "return" /\ log[k].res.kind = "Err")
              => eret = log[k].res

\* C5 witness: an evaluation is over whose first argument failed and whose
\* second argument would have failed with another error
C5_Witness ==
    /\ epc = "done"
    /\ HeadIsSym(root)
    /\ Len(root.elems) = 3
    /\ root.elems[2] = ListNode(<<>>)
    /\ root.elems[3].tag = "Sym"
    /\ eret = EErr("InvalidArguments", <<"The evaluated value must exist and be a symbol">>)

\* C6: `+` gives Num of the sum of its arguments when all are Num (0 for no
\* argument) and fails with InvalidArguments when one is not, wherever it is.
C6_PlusSums ==
    \A k \in Events :
        (log[k].ev = "invoke" /\ log[k].fn = "lisp_plus")
            => IF \A i \in 1..Len(log[k].args) : log[k].args[i].tag = "Num"
               THEN log[k].res = EOk(NumValue(MathSum(log[k].args)))
               ELSE log[k].res.kind = "Err" /\ log[k].res.err.tag = "InvalidArguments"

\* C7: once an evaluation is over, every list in it with a symbol at its head
\* whose arguments all gave values returned UnableToEvalFunction with the
\* symbol's text when the namespace has no entry for exactly those bytes, and
\* otherwise just what the registered callable gives for those values in order.
C7_LookupThenCall ==
    epc = "done" =>
        \A k \in Events :
            LET p == log[k].path
                node == NodeAt(root, p)
            IN (/\ log[k].ev = "enter"
                /\ HeadIsSym(node)
                /\ \A a \in 2..Len(node.elems) : ReturnedOkBefore(Append(p, a), Len(log) + 1))
               => LET key == Head(node.elems).bytes
                  IN IF key \in DOMAIN ns
                     THEN Returned(p, LispFn_call(ns[key], ArgVals(p), profile))
                     ELSE Returned(p, EErr("UnableToEvalFunction", key))

\* C7 witness: a list with an argument and an unregistered head was evaluated
C7_Witness ==
    /\ epc = "done"
    /\ HeadIsSym(root)
    /\ Len(root.elems) >= 2
    /\ Head(root.elems).bytes \notin DOMAIN ns
    /\ eret = EErr("UnableToEvalFunction", Head(root.elems).bytes)

\* a node eval rejects at once: a bare symbol, an empty list, a list whose
\* first element is not a symbol
Rejected(node) == node.tag = "Sym" \/ (node.tag = "List" /\ ~HeadIsSym(node))

\* C8: eval of an empty list, of a list whose first element is not a Sym and
\* of a bare Sym fails with InvalidArguments, and that is the very next thing
\* that happens: no element is evaluated and no function looked up before.
C8_BadHeadIsInvalidArguments ==
    \A k \in Events :
        (log[k].ev = "enter" /\ Rejected(NodeAt(root, log[k].path)))
            => /\ k < Len(log)
               /\ log[k + 1].ev = "return"
               /\ log[k + 1].path = log[k].path
               /\ log[k + 1].res.kind = "Err"
               /\ log[k + 1].res.err.tag = "InvalidArguments"

\* C8 witness: a list with a number at its head and a further element was
\* evaluated
C8_Witness ==
    /\ epc = "done"
    /\ root.tag = "List"
    /\ Len(root.elems) >= 2
    /\ Head(root.elems).tag = "Num"
    /\ eret.kind = "Err"

DefinedKeys == {defined[i][1] : i \in 1..Len(defined)}

\* the callable of the most recent defn of key
LastDefined(key) ==
    defined[CHOOSE i \in 1..Len(defined) :
                /\ defined[i][1] = key
                /\ \A j \in (i + 1)..Len(defined) : defined[j][1] # key][2]

\* C9: the keys of the namespace are those it was constructed with and those
\* passed to defn, each key maps to the callable of its most recent defn (to
\* its callable at construction when it was never passed to defn), and eval
\* changes none of this.
C9_NamespaceIsConstructionPlusDefn ==
    /\ DOMAIN ns = (DOMAIN ns0) \cup DefinedKeys
    /\ \A key \in DOMAIN ns :
          ns[key] = IF key \in DefinedKeys THEN LastDefined(key) ELSE ns0[key]

\* C9 witness: an evaluation is over in a namespace in which defn replaced a
\* callable the namespace was constructed with
C9_Witness ==
    /\ epc = "done"
    /\ \E key \in DefinedKeys : key \in DOMAIN ns0 /\ LastDefined(key) # ns0[key]

\* C10: no evaluation aborts the process, and `+` on Num arguments whose sum
\* is outside the range of isize fails with a typed error.
C10_FailuresAreTypedErrors ==
    /\ epc # "aborted"
    /\ \A k \in Events :
          (/\ log[k].ev = "invoke"
           /\ log[k].fn = "lisp_plus"
           /\ \A i \in 1..Len(log[k].args) : log[k].args[i].tag = "Num"
           /\ (MathSum(log[k].args) > IsizeMax \/ MathSum(log[k].args) < IsizeMin))
              => log[k].res.kind = "Err"

----------------------------------------------------------------------------
(* Claims about atom mode and string mode.                                 *)

\* tokenize(buf) takes buf as an atom: its first byte after trimming is not a
\* parenthesis and not a double quote
AtomMode(buf) ==
    LET t == trim_ascii(buf) IN t # <<>> /\ Head(t) \notin {"(", ")", "\""}

\* the number of bytes of t before its first whitespace or ")" byte
EarliestCut(t) ==
    CHOOSE c \in 0..Len(t) :
        /\ \A i \in 1..c : ~is_ascii_whitespace(t[i]) /\ t[i] # ")"
        /\ c < Len(t) => (is_ascii_whitespace(t[c + 1]) \/ t[c + 1] = ")")

ReturnedFrom == IF stack = <<>> THEN trim_ascii(buffer) ELSE Top(stack).trimmed_rest

IsSuffix(s, t) == Len(s) <= Len(t) /\ SubSeq(t, Len(t) - Len(s) + 1, Len(t)) = s

StringModeReturned ==
    /\ pc = "running"
    /\ ret.kind # "None"
    /\ ReturnedFrom # <<>>
    /\ Head(ReturnedFrom) = "\""

\* C13: in string mode tokenize fails with MissingDoubleQuote exactly when no
\* further double quote exists; otherwise the node is Str of the bytes strictly
\* between the opening quote and the next double quote, the call fails with
\* StringDidntEnd exactly when the byte right after the closing quote exists
\* and is neither whitespace nor ")", and it returns Parsed when nothing
\* follows the closing quote and ParsedRest otherwise, a following ")" being
\* the first byte of the remainder.
C13_StringMode ==
    StringModeReturned =>
        LET body == Tail(ReturnedFrom)
            quotes == {i \in 1..Len(body) : body[i] = "\""}
        IN /\ (ret.kind = "Err" /\ ret.err.tag = "MissingDoubleQuote") <=> quotes = {}
           /\ quotes # {} =>
                LET close == CHOOSE i \in quotes : \A j \in quotes : i <= j
                    inner == [i \in 1..(close - 1) |-> body[i]]
                    after == [i \in 1..(Len(body) - close) |-> body[close + i]]
                    bad == /\ after # <<>>
                           /\ ~is_ascii_whitespace(after[1])
                           /\ after[1] # ")"
                IN /\ (ret.kind = "Err" /\ ret.err.tag = "StringDidntEnd") <=> bad
                   /\ ~bad => /\ ret.kind # "Err"
                              /\ ret.node.tag = "Str"
                              /\ ret.node.bytes = inner
                              /\ ret.kind = "Parsed" <=> after = <<>>
                              /\ ret.kind = "ParsedRest" => ret.rest = after

\* C13 witness: a string directly followed by ")" was returned with the ")"
\* at the start of its remainder
C13_Witness ==
    /\ StringModeReturned
    /\ ret.kind = "ParsedRest"
    /\ ret.node.tag = "Str"
    /\ ret.node.bytes # <<>>
    /\ ret.rest[1] = ")"

\* a call tokenize(buf) has just returned and took buf as an atom
AtomModeReturned ==
    /\ pc = "running"
    /\ ret.kind # "None"
    /\ ReturnedFrom # <<>>
    /\ Head(ReturnedFrom) \notin {"(", ")", "\""}

\* the atom text of that call, as the code cuts it
AtomText == SubSeq(ReturnedFrom, 1, get_cutting_index_for_symbol(ReturnedFrom))

\* the value of a non-empty run of decimal digits
RECURSIVE DecimalValue(_)
DecimalValue(digits) ==
    IF Len(digits) = 1 THEN DigitValue(digits[1])
    ELSE 10 * DecimalValue(SubSeq(digits, 1, Len(digits) - 1))
         + DigitValue(digits[Len(digits)])

\* text is an optional "-" and then one digit or more
IsDecimalText(text) ==
    LET digits == IF Head(text) = "-" THEN Tail(text) ELSE text
    IN digits # <<>> /\ \A i \in 1..Len(digits) : is_ascii_digit(digits[i])

\* the integer that a decimal text denotes
SignedValue(text) ==
    IF Head(text) = "-" THEN -DecimalValue(Tail(text)) ELSE DecimalValue(text)

====
